---- MODULE Spec2Model ----
(***************************************************************************)
(* Model of metaopt.core.worker.consumer.Consumer: the consumption of a    *)
(* trial by a worker process (consume, _consume, launch_process), several  *)
(* workers sharing the trial store and the temporary directory.            *)
(***************************************************************************)
EXTENDS Integers, Sequences, FiniteSets, TLC

\* ---------------------------------------------------------------- bounds
MaxCalls == 1        \* consume calls made by each worker
MaxRecords == 2      \* records in a results file
MaxDirNames == 2     \* random names mkdtemp can draw for a directory
MaxFileNames == 1    \* random names the temp-file primitive can draw for a file

Workers == {"w1", "w2"}
TrialIds == {"t1", "t2"}
ExpNames == {"expA", "expB"}
DirNames == 1..MaxDirNames
FileNames == 1..MaxFileNames
ExitCodes == {-9, 0, 1}
EntryStatuses == {"reserved"}

\* ------------------------------------------------------- results records
\* What the converter can hand back for one record of the results file.
JsonRecords ==
    { [name |-> "loss", type |-> "objective", value |-> 42],
      [name |-> "grad", type |-> "gradient", value |-> 7, extra |-> 1],
      [name |-> "loss", type |-> "objective"] }

RECURSIVE SeqsUpTo(_, _)
SeqsUpTo(S, n) ==
    IF n = 0 THEN {<<>>}
    ELSE LET shorter == SeqsUpTo(S, n - 1)
         IN  shorter \cup {Append(s, e) : s \in {t \in shorter : Len(t) = n - 1}, e \in S}

\* Contents of a file: the empty placeholder, text that is not JSON, or a
\* JSON list of records.
AbsentContent == [kind |-> "absent", recs |-> <<>>]
EmptyContent == [kind |-> "empty", recs |-> <<>>]
GarbageContent == [kind |-> "garbage", recs |-> <<>>]
ConfigContent == [kind |-> "config", recs |-> <<>>]
JsonContent(recs) == [kind |-> "json", recs |-> recs]

\* What the child can leave at the results path: nothing written, the file
\* removed, garbage, or a list of records.
ChildWrites == {"keep", "remove", "garbage"}
ChildJson == SeqsUpTo(JsonRecords, MaxRecords)

NoPath == <<>>
\* Paths under tmp_dir: <experiment name>_<random> for a directory,
\* <directory>/<prefix><random><suffix> for a file.
DirPaths == {<<e, n>> : e \in ExpNames, n \in DirNames}
FileKinds == {<<"trial_", ".conf">>, <<"results_", ".log">>}
FilePaths == {<<d, k[1], n, k[2]>> : d \in DirPaths, k \in FileKinds, n \in FileNames}
NoTrial == [id |-> "none", status |-> "none", results |-> <<>>]

\* Environment variables, and the environment each worker process starts in
\* (the first worker inherited a results path from whoever started it).
EnvVars == {"PATH", "METAOPT_RESULTS_PATH"}
os_environ(w) ==
    [v \in EnvVars |-> IF v = "PATH" THEN <<"/usr/bin">>
                       ELSE IF w = "w1" THEN <<"inherited">> ELSE NoPath]
NoProc == [state |-> "none", code |-> 0, command |-> <<>>, results_path |-> NoPath,
           env |-> [v \in EnvVars |-> NoPath]]

VARIABLES
    experiment,   \* experiment.name of each worker's Consumer
    environ,      \* os.environ of each worker process
    store,        \* the 'trials' collection of the database
    fsDirs,       \* directories under tmp_dir
    fsFiles,      \* files under tmp_dir, with their contents
    pc,           \* position of each worker in consume
    trial,        \* the Trial object passed to consume
    wdir,         \* workdirname
    cfile,        \* config_file.name
    rfile,        \* results_file.name
    cmd_args,     \* cmd_args
    proc,         \* the child process
    returncode,   \* returncode in _consume
    completed,    \* completed_trial is not None
    err,          \* exception in flight or raised by consume
    calls,        \* consume calls started by each worker
    hist          \* what happened in the current consume call

vars == <<experiment, environ, store, fsDirs, fsFiles, pc, trial, wdir, cfile, rfile,
          cmd_args, proc, returncode, completed, err, calls, hist>>

NoHist ==
    [entry |-> NoTrial, obtained |-> NoTrial,
     entered |-> 0, released |-> 0, launches |-> 0, launch |-> "none",
     waits |-> 0, parses |-> 0, parsed |-> <<>>, parse_ok |-> FALSE,
     commits |-> 0, commit_ok |-> FALSE, pushed |-> NoTrial,
     recycles |-> 0, recycle_ok |-> FALSE, written |-> NoTrial,
     ws_dir |-> NoPath, steps |-> <<>>, parsed_path |-> NoPath]

\* ----------------------------------------------------------------- trial
\* Trial.to_dict(): the document stored for a trial.
to_dict(t) == [id |-> t.id, status |-> t.status, results |-> t.results]

\* ----------------------------------------------------------------- store
Matches(doc, query) == \A k \in DOMAIN query : doc[k] = query[k]

\* Database().write(collection, data, query): every document matching the
\* query is set to data.
DatabaseWrite(st, data, query) ==
    [i \in TrialIds |-> IF Matches(st[i], query) THEN data ELSE st[i]]

InitWith(started) ==
    /\ experiment \in {f \in [Workers -> ExpNames] : f["w1"] = "expA"}
    /\ environ = [w \in Workers |-> os_environ(w)]
    /\ store = [i \in TrialIds |-> [id |-> i, status |-> "new", results |-> <<>>]]
    /\ fsDirs = {}
    /\ fsFiles = [p \in FilePaths |-> AbsentContent]
    /\ pc = [w \in Workers |-> "idle"]
    /\ trial = [w \in Workers |-> NoTrial]
    /\ wdir = [w \in Workers |-> NoPath]
    /\ cfile = [w \in Workers |-> NoPath]
    /\ rfile = [w \in Workers |-> NoPath]
    /\ cmd_args = [w \in Workers |-> <<>>]
    /\ proc = [w \in Workers |-> NoProc]
    /\ returncode = [w \in Workers |-> 0]
    /\ completed = [w \in Workers |-> FALSE]
    /\ err = [w \in Workers |-> "none"]
    /\ calls = started
    /\ hist = [w \in Workers |-> NoHist]

\* Every worker has its consume calls ahead of it.
Init == InitWith([w \in Workers |-> 0])

\* One worker alone: the other one has no trial left to consume.
InitOne == InitWith([w \in Workers |-> IF w = "w1" THEN 0 ELSE MaxCalls])

\* consume(trial) is called with a trial of the store that is not completed.
Consume(w) ==
    /\ pc[w] = "idle"
    /\ calls[w] < MaxCalls
    /\ \E i \in TrialIds, s \in EntryStatuses :
         /\ store[i].status # "completed"
         /\ trial' = [trial EXCEPT ![w] =
                        [id |-> i, status |-> s, results |-> store[i].results]]
         /\ hist' = [hist EXCEPT ![w] =
                        [NoHist EXCEPT !.entry = trial'[w], !.obtained = store[i]]]
    /\ calls' = [calls EXCEPT ![w] = @ + 1]
    /\ pc' = [pc EXCEPT ![w] = "tmpdir"]
    /\ UNCHANGED <<experiment, environ, store, fsDirs, fsFiles, wdir, cfile, rfile,
                   cmd_args, proc, returncode, completed, err>>

\* ------------------------------------------------------------- workspace
\* tempfile.mkdtemp: the names a new directory with this prefix can get.
mkdtemp_fixed(dirs, prefix) == {<<prefix, 1>>}
mkdtemp(dirs, prefix) == {<<prefix, n>> : n \in DirNames} \ dirs

\* tempfile.NamedTemporaryFile(delete=False): the names a new file can get.
mkstemp(files, dir, prefix, suffix) ==
    {p \in {<<dir, prefix, n, suffix>> : n \in FileNames} : files[p].kind = "absent"}

\* TemporaryDirectory.__exit__: the directory and all it holds are removed,
\* whether or not an exception e is in flight.
cleanup_dirs_unless_raised(dirs, d, e) == IF e # "none" THEN dirs ELSE dirs \ {d}
cleanup_dirs(dirs, d, e) == dirs \ {d}
cleanup_files_unless_raised(files, d, e) ==
    IF e # "none" THEN files
    ELSE [p \in FilePaths |-> IF p[1] = d THEN AbsentContent ELSE files[p]]
cleanup_files(files, d, e) ==
    [p \in FilePaths |-> IF p[1] = d THEN AbsentContent ELSE files[p]]

\* with tempfile.TemporaryDirectory(prefix=experiment.name + '_', dir=tmp_dir)
EnterWorkspace(w) ==
    /\ pc[w] = "tmpdir"
    /\ \/ \E d \in mkdtemp(fsDirs, experiment[w]) :
            /\ fsDirs' = fsDirs \cup {d}
            /\ wdir' = [wdir EXCEPT ![w] = d]
            /\ hist' = [hist EXCEPT ![w].entered = @ + 1, ![w].ws_dir = d,
                                    ![w].steps = Append(@, "workspace")]
            /\ pc' = [pc EXCEPT ![w] = "config"]
            /\ err' = err
       \/ /\ err' = [err EXCEPT ![w] = "workspace"]
          /\ pc' = [pc EXCEPT ![w] = "raised"]
          /\ UNCHANGED <<fsDirs, wdir, hist>>
    /\ UNCHANGED <<experiment, environ, store, fsFiles, trial, cfile, rfile, cmd_args,
                   proc, returncode, completed, calls>>

\* config_file = tempfile.NamedTemporaryFile(prefix='trial_', suffix='.conf')
AllocConfig(w) ==
    /\ pc[w] = "config"
    /\ \/ \E p \in mkstemp(fsFiles, wdir[w], "trial_", ".conf") :
            /\ fsFiles' = [fsFiles EXCEPT ![p] = EmptyContent]
            /\ cfile' = [cfile EXCEPT ![w] = p]
            /\ hist' = hist
            /\ pc' = [pc EXCEPT ![w] = "results"]
            /\ err' = err
       \/ /\ err' = [err EXCEPT ![w] = "workspace"]
          /\ pc' = [pc EXCEPT ![w] = "exit"]
          /\ UNCHANGED <<fsFiles, cfile, hist>>
    /\ UNCHANGED <<experiment, environ, store, fsDirs, trial, wdir, rfile, cmd_args,
                   proc, returncode, completed, calls>>

\* results_file = tempfile.NamedTemporaryFile(prefix='results_', suffix='.log')
AllocResults(w) ==
    /\ pc[w] = "results"
    /\ \/ \E p \in mkstemp(fsFiles, wdir[w], "results_", ".log") :
            /\ fsFiles' = [fsFiles EXCEPT ![p] = EmptyContent]
            /\ rfile' = [rfile EXCEPT ![w] = p]
            /\ hist' = hist
            /\ pc' = [pc EXCEPT ![w] = "build"]
            /\ err' = err
       \/ /\ err' = [err EXCEPT ![w] = "workspace"]
          /\ pc' = [pc EXCEPT ![w] = "exit"]
          /\ UNCHANGED <<fsFiles, rfile, hist>>
    /\ UNCHANGED <<experiment, environ, store, fsDirs, trial, wdir, cfile, cmd_args,
                   proc, returncode, completed, calls>>

\* SpaceBuilder.build_to(config_path, trial): writes the rendered template
\* to the config file and returns the command-line arguments.
build_to(config_path, t) == <<"--config", config_path, "--trial", t.id>>

\* cmd_args = self.template.build_to(config_file.name, trial)
BuildTo(w) ==
    /\ pc[w] = "build"
    /\ cmd_args' = [cmd_args EXCEPT ![w] = build_to(cfile[w], trial[w])]
    /\ fsFiles' = [fsFiles EXCEPT ![cfile[w]] = ConfigContent]
    /\ hist' = [hist EXCEPT ![w].steps = Append(@, "render")]
    /\ pc' = [pc EXCEPT ![w] = "launch"]
    /\ UNCHANGED <<experiment, environ, store, fsDirs, trial, wdir, cfile,
                   rfile, proc, returncode, completed, err, calls>>

\* --------------------------------------------------------------- process
\* process.poll() right after Popen: None while the child runs, else its code.
PollResults == {[done |-> FALSE, code |-> 0]} \cup {[done |-> TRUE, code |-> c] : c \in ExitCodes}

\* What a child does to the file named by METAOPT_RESULTS_PATH before it exits.
ChildOutputs == {[kind |-> k, recs |-> <<>>] : k \in ChildWrites} \cup {JsonContent(s) : s \in ChildJson}

ChildEffect(files, path, out) ==
    IF out.kind = "keep" \/ path \notin FilePaths THEN files
    ELSE IF out.kind = "remove" THEN [files EXCEPT ![path] = AbsentContent]
    ELSE [files EXCEPT ![path] = out]

\* launch_process: command = [self.script] + cmd_args
command(args) == <<"user_script">> \o args

\* launch_process: env = dict(os.environ); env['METAOPT_RESULTS_PATH'] = ...
\* The child's environment, and the worker's own one afterwards (dict() copies).
child_env_inherited(env, results_filename) == env
child_env(env, results_filename) ==
    [env EXCEPT !["METAOPT_RESULTS_PATH"] = results_filename]
environ_after_launch(env, results_filename) == env

\* launch_process: if returncode is not None and returncode < 0: return None
launch_returns_none_nonzero(poll) == poll.done /\ poll.code # 0
launch_returns_none(poll) == poll.done /\ poll.code < 0

\* script_process = self.launch_process(results_file.name, cmd_args)
LaunchProcess(w) ==
    /\ pc[w] = "launch"
    /\ \/ /\ err' = [err EXCEPT ![w] = "launch"]       \* Popen raises OSError
          /\ hist' = [hist EXCEPT ![w].launch = "oserror",
                                  ![w].steps = Append(@, "launch")]
          /\ pc' = [pc EXCEPT ![w] = "exit"]
          /\ UNCHANGED <<proc, fsFiles>>
       \/ \E poll \in PollResults, out \in ChildOutputs :
            /\ ~poll.done => out.kind = "keep"
            /\ proc' = [proc EXCEPT ![w] =
                          [state |-> IF poll.done THEN "exited" ELSE "running",
                           code |-> poll.code,
                           command |-> command(cmd_args[w]),
                           results_path |-> rfile[w],
                           env |-> child_env(environ[w], rfile[w])]]
            /\ fsFiles' = ChildEffect(fsFiles,
                                      proc'[w].env["METAOPT_RESULTS_PATH"], out)
            /\ hist' = [hist EXCEPT ![w].launches = @ + 1,
                                    ![w].launch = IF launch_returns_none(poll)
                                                  THEN "failed" ELSE "handle",
                                    ![w].steps = Append(@, "launch")]
            /\ pc' = [pc EXCEPT ![w] = IF launch_returns_none(poll)
                                       THEN "exit" ELSE "wait"]
            /\ err' = err
    /\ environ' = [environ EXCEPT ![w] = environ_after_launch(@, rfile[w])]
    /\ UNCHANGED <<experiment, store, fsDirs, trial, wdir, cfile, rfile,
                   cmd_args, returncode, completed, calls>>

\* The user's script ends: it has written what it writes and exits.
ChildExit(w) ==
    /\ proc[w].state = "running"
    /\ \E c \in ExitCodes, out \in ChildOutputs :
         /\ proc' = [proc EXCEPT ![w].state = "exited", ![w].code = c]
         /\ fsFiles' = ChildEffect(fsFiles, proc[w].env["METAOPT_RESULTS_PATH"], out)
    /\ UNCHANGED <<experiment, environ, store, fsDirs, pc, trial, wdir, cfile, rfile,
                   cmd_args, returncode, completed, err, calls, hist>>

\* _consume: if returncode != 0: return None
wait_failed_positive(code) == code > 0
wait_failed_negative(code) == code < 0
wait_failed_never(code) == FALSE
wait_failed(code) == code # 0

\* script_process.wait() has no timeout: it returns once the child has exited.
wait_returns_after_timeout(p) == p.state \in {"running", "exited"}
wait_returns(p) == p.state = "exited"

\* returncode = script_process.wait()
Wait(w) ==
    /\ pc[w] = "wait"
    /\ wait_returns(proc[w])
    /\ returncode' = [returncode EXCEPT ![w] = proc[w].code]
    /\ hist' = [hist EXCEPT ![w].waits = @ + 1, ![w].steps = Append(@, "wait")]
    /\ pc' = [pc EXCEPT ![w] = IF wait_failed(proc[w].code) THEN "exit" ELSE "parse"]
    /\ UNCHANGED <<experiment, environ, store, fsDirs, fsFiles, trial, wdir, cfile,
                   rfile, cmd_args, proc, completed, err, calls>>

\* ----------------------------------------------------------------- parse
\* JSONConverter.parse(path): the records of the file, or an error.
parse_fails(content) == content.kind # "json"
parse(content) == content.recs

ResultKeys == {"name", "type", "value"}
HasKeys(r) == ResultKeys \subseteq DOMAIN r

\* Trial.Result(name=res['name'], type=res['type'], value=res['value'])
Result(res) == [name |-> res.name, type |-> res.type, value |-> res.value]

\* trial.results after  trial.results = [Trial.Result(...) for res in results]:
\* a record without one of the keys raises before the assignment.
trial_results_reversed(old, results) ==
    IF \A i \in 1..Len(results) : HasKeys(results[i])
    THEN [i \in 1..Len(results) |-> Result(results[Len(results) + 1 - i])]
    ELSE old
trial_results_partial(old, results) ==
    LET good == {n \in 0..Len(results) : \A i \in 1..n : HasKeys(results[i])}
        last == CHOOSE n \in good : \A m \in good : m <= n
    IN  [i \in 1..last |-> Result(results[i])]
trial_results(old, results) ==
    IF \A i \in 1..Len(results) : HasKeys(results[i])
    THEN [i \in 1..Len(results) |-> Result(results[i])]
    ELSE old

\* results = self.converter.parse(results_file.name); trial.results = ...
Parse(w) ==
    /\ pc[w] = "parse"
    /\ LET content == fsFiles[rfile[w]]
           results == parse(content)
       IN  IF parse_fails(content)
           THEN /\ err' = [err EXCEPT ![w] = "parse"]
                /\ hist' = [hist EXCEPT ![w].parses = @ + 1,
                                        ![w].parsed_path = rfile[w],
                                        ![w].steps = Append(@, "parse")]
                /\ UNCHANGED <<trial, completed>>
           ELSE /\ hist' = [hist EXCEPT ![w].parses = @ + 1,
                                        ![w].parsed = results,
                                        ![w].parse_ok = TRUE,
                                        ![w].parsed_path = rfile[w],
                                        ![w].steps = Append(@, "parse")]
                /\ trial' = [trial EXCEPT ![w].results =
                                trial_results(trial[w].results, results)]
                /\ IF \A i \in 1..Len(results) : HasKeys(results[i])
                   THEN /\ completed' = [completed EXCEPT ![w] = TRUE]
                        /\ err' = err
                   ELSE /\ err' = [err EXCEPT ![w] = "keyerror"]
                        /\ completed' = completed
    /\ pc' = [pc EXCEPT ![w] = "exit"]
    /\ UNCHANGED <<experiment, environ, store, fsDirs, fsFiles, wdir, cfile, rfile,
                   cmd_args, proc, returncode, calls>>

\* TemporaryDirectory.__exit__ does not suppress an exception: with one in
\* flight consume raises, otherwise it goes on to the disposition.
after_scope_swallow(e) == "dispose"
after_scope(e) == IF e # "none" THEN "raised" ELSE "dispose"

\* Leaving the with block: the workspace is removed; an exception in flight
\* goes on to the caller of consume.
ExitScope(w) ==
    /\ pc[w] = "exit"
    /\ fsDirs' = cleanup_dirs(fsDirs, wdir[w], err[w])
    /\ fsFiles' = cleanup_files(fsFiles, wdir[w], err[w])
    /\ hist' = [hist EXCEPT ![w].released = @ + 1,
                            ![w].steps = Append(@, "teardown")]
    /\ pc' = [pc EXCEPT ![w] = after_scope(err[w])]
    /\ UNCHANGED <<experiment, environ, store, trial, wdir, cfile, rfile, cmd_args,
                   proc, returncode, completed, err, calls>>

\* ----------------------------------------------------------- disposition
StoreOutcomes == {"ok", "fail"}

\* Experiment.push_completed_trial(trial): the trial is marked completed and
\* its document written to the store under its id.
push_completed_trial(st, t) ==
    DatabaseWrite(st, to_dict([t EXCEPT !.status = "completed"]), [id |-> t.id])

\* query={'_id': trial.id}
recycle_query_by_status(t) == [status |-> t.status]
recycle_query(t) == [id |-> t.id]

\* self.experiment.push_completed_trial(completed_trial)
Commit(w) ==
    /\ pc[w] = "dispose"
    /\ completed[w]
    /\ \E o \in StoreOutcomes :
         IF o = "ok"
         THEN /\ store' = push_completed_trial(store, trial[w])
              /\ trial' = [trial EXCEPT ![w].status = "completed"]
              /\ hist' = [hist EXCEPT ![w].commits = @ + 1,
                                      ![w].pushed = trial[w],
                                      ![w].commit_ok = TRUE,
                                      ![w].steps = Append(@, "write")]
              /\ pc' = [pc EXCEPT ![w] = "returned"]
              /\ err' = err
         ELSE /\ hist' = [hist EXCEPT ![w].commits = @ + 1,
                                      ![w].pushed = trial[w],
                                      ![w].steps = Append(@, "write")]
              /\ err' = [err EXCEPT ![w] = "store"]
              /\ pc' = [pc EXCEPT ![w] = "raised"]
              /\ UNCHANGED <<store, trial>>
    /\ UNCHANGED <<experiment, environ, fsDirs, fsFiles, wdir, cfile, rfile, cmd_args,
                   proc, returncode, completed, calls>>

\* trial.status = 'new'; Database().write('trials', trial.to_dict(), query=...)
Recycle(w) ==
    /\ pc[w] = "dispose"
    /\ ~completed[w]
    /\ trial' = [trial EXCEPT ![w].status = "new"]
    /\ \E o \in StoreOutcomes :
         IF o = "ok"
         THEN /\ store' = DatabaseWrite(store, to_dict(trial'[w]), recycle_query(trial'[w]))
              /\ hist' = [hist EXCEPT ![w].recycles = @ + 1,
                                      ![w].written = to_dict(trial'[w]),
                                      ![w].recycle_ok = TRUE,
                                      ![w].steps = Append(@, "write")]
              /\ pc' = [pc EXCEPT ![w] = "returned"]
              /\ err' = err
         ELSE /\ hist' = [hist EXCEPT ![w].recycles = @ + 1,
                                      ![w].written = to_dict(trial'[w]),
                                      ![w].steps = Append(@, "write")]
              /\ err' = [err EXCEPT ![w] = "store"]
              /\ pc' = [pc EXCEPT ![w] = "raised"]
              /\ store' = store
    /\ UNCHANGED <<experiment, environ, fsDirs, fsFiles, wdir, cfile, rfile, cmd_args,
                   proc, returncode, completed, calls>>

\* consume is over; the worker goes on to its next trial.
Return(w) ==
    /\ pc[w] \in {"returned", "raised"}
    /\ pc' = [pc EXCEPT ![w] = "idle"]
    /\ trial' = [trial EXCEPT ![w] = NoTrial]
    /\ wdir' = [wdir EXCEPT ![w] = NoPath]
    /\ cfile' = [cfile EXCEPT ![w] = NoPath]
    /\ rfile' = [rfile EXCEPT ![w] = NoPath]
    /\ cmd_args' = [cmd_args EXCEPT ![w] = <<>>]
    /\ proc' = [proc EXCEPT ![w] = NoProc]
    /\ returncode' = [returncode EXCEPT ![w] = 0]
    /\ completed' = [completed EXCEPT ![w] = FALSE]
    /\ err' = [err EXCEPT ![w] = "none"]
    /\ hist' = [hist EXCEPT ![w] = NoHist]
    /\ UNCHANGED <<experiment, environ, store, fsDirs, fsFiles, calls>>

Next ==
    \E w \in Workers :
        \/ Consume(w)
        \/ EnterWorkspace(w)
        \/ AllocConfig(w)
        \/ AllocResults(w)
        \/ BuildTo(w)
        \/ LaunchProcess(w)
        \/ ChildExit(w)
        \/ Wait(w)
        \/ Parse(w)
        \/ ExitScope(w)
        \/ Commit(w)
        \/ Recycle(w)
        \/ Return(w)

Spec == Init /\ [][Next]_vars

SpecOne == InitOne /\ [][Next]_vars

\* The steps a worker process makes by itself once consume is called: its
\* thread runs them one after the other, so the next one is always taken.
\* The child, not the worker, decides when (and whether) it exits.
Progress(w) ==
    \/ EnterWorkspace(w)
    \/ AllocConfig(w)
    \/ AllocResults(w)
    \/ BuildTo(w)
    \/ LaunchProcess(w)
    \/ Wait(w)
    \/ Parse(w)
    \/ ExitScope(w)
    \/ Commit(w)
    \/ Recycle(w)

SpecOneLive == InitOne /\ [][Next]_vars /\ \A w \in Workers : WF_vars(Progress(w))
\* ================================================================ claims
Done(w) == pc[w] \in {"returned", "raised"}
InScope(w) == pc[w] \in {"config", "results", "build", "launch", "wait", "parse", "exit"}
WellKeyed(recs) == \A i \in 1..Len(recs) : HasKeys(recs[i])
SameRecords(results, recs) ==
    /\ Len(results) = Len(recs)
    /\ \A i \in 1..Len(recs) :
         /\ results[i].name = recs[i].name
         /\ results[i].type = recs[i].type
         /\ results[i].value = recs[i].value

\* C1: every consume call that got as far as its workspace ends, whatever the
\* outcome of the attempt (success, non-zero exit, launch failure, parse
\* failure), with exactly one store write made: the commit or the recycle
\* write, never both and never neither.
C1_ExactlyOneWrite ==
    \A w \in Workers :
        (Done(w) /\ err[w] # "workspace") =>
            hist[w].commits + hist[w].recycles = 1

\* C2: when control leaves consume, by return or by exception, after an
\* attempt that got its workspace and whose launch raised no OSError, the
\* trial is either committed (results stored) or recycled (status 'new', no
\* results, stored), never both, and the trial in memory has its status
\* reset to 'new' or its results changed only if the matching store write
\* completed.
C2_CommittedOrRecycled ==
    \A w \in Workers :
        (Done(w) /\ err[w] # "workspace" /\ hist[w].launch # "oserror") =>
            LET committed == hist[w].commit_ok
                recycled == /\ hist[w].recycle_ok
                            /\ trial[w].status = "new"
                            /\ trial[w].results = <<>>
            IN  /\ committed # recycled
                /\ (trial[w].status = "new" /\ hist[w].entry.status # "new")
                       => hist[w].recycle_ok
                /\ trial[w].results # hist[w].entry.results => hist[w].commit_ok

\* C3: a directory or a file exists under tmp_dir only while it belongs to
\* the workspace of a consume call that is still inside its with block; once
\* the block is left (by return or by exception) the workspace was released
\* exactly once, and never more than once.
C3_WorkspaceRemoved ==
    /\ \A d \in fsDirs : \E w \in Workers : InScope(w) /\ wdir[w] = d
    /\ \A p \in FilePaths :
         fsFiles[p].kind # "absent" => \E w \in Workers : InScope(w) /\ wdir[w] = p[1]
    /\ \A w \in Workers :
         /\ hist[w].released <= hist[w].entered
         /\ hist[w].entered <= 1
         /\ InScope(w) => hist[w].entered = 1 /\ hist[w].released = 0
         /\ (Done(w) \/ pc[w] = "dispose") => hist[w].released = hist[w].entered
         /\ (Done(w) /\ err[w] \in {"launch", "parse", "keyerror", "store"})
                => hist[w].released = 1
         /\ (pc[w] = "returned") => hist[w].released = 1

C3_Witness ==
    \E w \in Workers :
        /\ pc[w] = "raised"
        /\ err[w] = "parse"
        /\ hist[w].released = 1
        /\ hist[w].ws_dir \notin fsDirs

\* C4: when the script cannot be started (Popen raises OSError) or is found
\* terminated with a negative status at the immediate check, consume does
\* not raise for it: no wait is made and the trial is recycled, its status
\* 'new' and its document written under its id.
C4_LaunchFailureRecycles ==
    \A w \in Workers :
        (Done(w) /\ hist[w].launch \in {"oserror", "failed"} /\ err[w] # "store") =>
            /\ pc[w] = "returned"
            /\ hist[w].waits = 0
            /\ trial[w].status = "new"
            /\ hist[w].recycles = 1
            /\ hist[w].written = [id |-> hist[w].entry.id, status |-> "new",
                                  results |-> hist[w].entry.results]

\* C5 (as claimed): after exit code 0 and a well-formed results file the
\* trial passed to push_completed_trial has results that are non-empty and
\* equal, record for record and in order, to what the parser returned.
C5_CommittedResultsNonEmpty ==
    \A w \in Workers :
        (hist[w].commits = 1) =>
            /\ hist[w].pushed.results # <<>>
            /\ SameRecords(hist[w].pushed.results, hist[w].parsed)

\* C5 (amended): after exit code 0 and a well-formed results file, consume
\* passes to push_completed_trial the same trial, with results equal, record
\* for record and in file order, to the {name, type, value} of the records
\* the parser returned (empty when the parser returned no record), and the
\* status advanced by the commit; the results of a trial are at any time
\* either those it had at entry or that whole sequence.
C5_CommittedResults ==
    \A w \in Workers :
        /\ (Done(w) /\ hist[w].waits = 1 /\ returncode[w] = 0
              /\ hist[w].parse_ok /\ WellKeyed(hist[w].parsed))
             => hist[w].commits = 1
        /\ (hist[w].commits = 1) =>
             /\ hist[w].waits = 1 /\ returncode[w] = 0 /\ hist[w].parse_ok
             /\ hist[w].pushed.id = hist[w].entry.id
             /\ SameRecords(hist[w].pushed.results, hist[w].parsed)
             /\ trial[w].results = hist[w].pushed.results
             /\ hist[w].commit_ok =>
                  (trial[w].status = "completed" /\ hist[w].entry.status # "completed")
        /\ \/ trial[w].results = hist[w].entry.results
           \/ hist[w].parse_ok /\ SameRecords(trial[w].results, hist[w].parsed)

C5_Witness ==
    \E w \in Workers :
        /\ pc[w] = "returned"
        /\ hist[w].commit_ok
        /\ Len(hist[w].parsed) = 2
        /\ hist[w].parsed[1] # hist[w].parsed[2]
        /\ "extra" \in DOMAIN hist[w].parsed[2]
        /\ store[trial[w].id].results = trial[w].results

\* C6: when wait() returns a non-zero exit code the parser is never invoked,
\* the results of the trial stay as they were at entry, push_completed_trial
\* is not called, and consume sets the status to 'new' and makes the recycle
\* write of the trial's document.
C6_NonZeroExitRecycles ==
    \A w \in Workers :
        (hist[w].waits = 1 /\ returncode[w] # 0) =>
            /\ hist[w].parses = 0
            /\ trial[w].results = hist[w].entry.results
            /\ hist[w].commits = 0
            /\ ~completed[w]
            /\ pc[w] \in {"exit", "dispose", "returned", "raised"}
            /\ Done(w) =>
                 /\ trial[w].status = "new"
                 /\ hist[w].recycles = 1
                 /\ hist[w].written = [id |-> hist[w].entry.id, status |-> "new",
                                       results |-> hist[w].entry.results]
                 /\ hist[w].recycle_ok <=> pc[w] = "returned"

C6_Witness ==
    \E w \in Workers :
        /\ pc[w] = "returned"
        /\ hist[w].waits = 1
        /\ returncode[w] = 1
        /\ hist[w].entry.status = "reserved"
        /\ hist[w].recycle_ok
        /\ store[trial[w].id] = hist[w].written

\* C7: when the child exits with code 0 and reading the results fails (the
\* parser raises, or a record lacks a key), the error leaves _consume and
\* consume (consume raises, and makes no store write), and the results of
\* the trial are as they were at entry.
C7_ParseErrorPropagates ==
    \A w \in Workers :
        (hist[w].parses = 1 /\ (~hist[w].parse_ok \/ ~WellKeyed(hist[w].parsed))) =>
            /\ returncode[w] = 0
            /\ err[w] = (IF hist[w].parse_ok THEN "keyerror" ELSE "parse")
            /\ trial[w].results = hist[w].entry.results
            /\ trial[w].status = hist[w].entry.status
            /\ pc[w] \in {"exit", "raised"}
            /\ hist[w].commits = 0
            /\ hist[w].recycles = 0

C7_Witness ==
    \E w \in Workers :
        /\ pc[w] = "raised"
        /\ err[w] = "parse"
        /\ hist[w].parses = 1
        /\ returncode[w] = 0

\* C8: a recycle write leaves alone a document of the store that was changed
\* since this worker obtained the trial.
C8_NoStaleOverwrite ==
    [][\A w \in Workers :
         (Recycle(w) /\ store[trial[w].id] # hist[w].obtained)
             => store'[trial[w].id] = store[trial[w].id]]_vars

\* C9: under every interleaving of the workers, a step changes a document
\* of the store only if it is the commit or the recycle write of a worker
\* consuming the trial of that id, and the document keeps that id.
C9_WritesScopedByTrialId ==
    [][\A i \in TrialIds :
         store'[i] # store[i] =>
             /\ store'[i].id = i
             /\ \E w \in Workers : trial[w].id = i /\ (Commit(w) \/ Recycle(w))]_vars

C9_Witness ==
    \E w1, w2 \in Workers :
        /\ trial[w1].id = "t1"
        /\ trial[w2].id = "t2"
        /\ pc[w1] = "returned"
        /\ hist[w1].commit_ok
        /\ pc[w2] = "returned"
        /\ hist[w2].recycle_ok
        /\ store["t1"].status = "completed"
        /\ store["t2"].status = "new"

\* C10: two consumptions that are inside their with blocks at the same time
\* have different directories and different config and results files; each
\* one's files lie in its own directory, and its directory and config file
\* are there for as long as it is inside the block.
C10_WorkspacesDisjoint ==
    /\ \A w \in Workers :
         InScope(w) =>
             /\ wdir[w] \in fsDirs
             /\ wdir[w][1] = experiment[w]
             /\ cfile[w] # NoPath =>
                  (cfile[w][1] = wdir[w] /\ fsFiles[cfile[w]].kind \in {"empty", "config"})
             /\ rfile[w] # NoPath => (rfile[w][1] = wdir[w] /\ rfile[w] # cfile[w])
             /\ proc[w].state # "none" => proc[w].results_path = rfile[w]
    /\ \A w1, w2 \in Workers :
         (w1 # w2 /\ InScope(w1) /\ InScope(w2)) =>
             /\ wdir[w1] # wdir[w2]
             /\ {cfile[w1], rfile[w1]} \cap {cfile[w2], rfile[w2]} \subseteq {NoPath}

C10_Witness ==
    \E w1, w2 \in Workers :
        /\ w1 # w2
        /\ experiment[w1] = experiment[w2]
        /\ pc[w1] = "wait"
        /\ pc[w2] = "parse"
\* ------------------------------------------------------------ step order
Has(steps, x) == \E i \in 1..Len(steps) : steps[i] = x
Pos(order, x) == CHOOSE i \in 1..Len(order) : order[i] = x
InOrder(steps, order) ==
    \A i, j \in 1..Len(steps) : i < j => Pos(order, steps[i]) < Pos(order, steps[j])

\* C11 (as claimed): the steps of a consume call occur in the order workspace
\* created, arguments rendered, process launched, waited for, results parsed,
\* store write (commit or recycle), and only then the workspace torn down.
C11_TeardownAfterStoreWrite ==
    \A w \in Workers :
        InOrder(hist[w].steps,
                <<"workspace", "render", "launch", "wait", "parse", "write", "teardown">>)

\* C11 (amended): the steps of a consume call occur in the order workspace
\* created, arguments rendered, process launched, waited for, results parsed
\* (only after a wait that returned 0), workspace torn down, and only then
\* the store write (commit or recycle); no step is made without the ones it
\* builds on, and a call that returns has made them all but, on failure, the
\* wait and the parse.
C11_StepOrder ==
    \A w \in Workers :
        LET steps == hist[w].steps
        IN  /\ InOrder(steps,
                       <<"workspace", "render", "launch", "wait", "parse", "teardown", "write">>)
            /\ Has(steps, "render") => Has(steps, "workspace")
            /\ Has(steps, "launch") => Has(steps, "render")
            /\ Has(steps, "wait") => Has(steps, "launch")
            /\ Has(steps, "parse") => (Has(steps, "wait") /\ returncode[w] = 0)
            /\ Has(steps, "teardown") => Has(steps, "workspace")
            /\ Has(steps, "write") => Has(steps, "teardown")
            /\ pc[w] = "returned" =>
                 (Has(steps, "launch") /\ Has(steps, "teardown") /\ Has(steps, "write"))
            /\ hist[w].commits = 1 => Has(steps, "parse")

C11_Witness ==
    \E w \in Workers :
        /\ pc[w] = "returned"
        /\ hist[w].commit_ok
        /\ hist[w].steps =
              <<"workspace", "render", "launch", "wait", "parse", "teardown", "write">>
\* C12: launch_process returns None exactly when the child it spawned is
\* found, at the immediate check, already terminated with a negative status;
\* when the child still runs or has exited with 0 or a positive code it
\* returns the handle, wait() is called on it exactly once, and the code
\* wait() returns decides: non-zero recycles without parsing, 0 goes on to
\* the parse and, the results read, to the commit.
C12_LaunchReturn ==
    /\ [][\A w \in Workers :
            (pc[w] = "launch" /\ hist'[w].launches = hist[w].launches + 1) =>
                /\ (hist'[w].launch = "failed")
                       <=> (proc'[w].state = "exited" /\ proc'[w].code < 0)
                /\ hist'[w].launch \in {"failed", "handle"}
                /\ pc'[w] = (IF hist'[w].launch = "failed" THEN "exit" ELSE "wait")]_vars
    /\ [](\A w \in Workers :
            /\ hist[w].waits <= 1
            /\ hist[w].launch \in {"failed", "oserror", "none"} => hist[w].waits = 0
            /\ (hist[w].launch = "handle" /\ pc[w] # "wait") => hist[w].waits = 1
            /\ hist[w].waits = 1 =>
                 (proc[w].state = "exited" /\ returncode[w] = proc[w].code)
            /\ (hist[w].waits = 1 /\ returncode[w] # 0) =>
                 /\ hist[w].parses = 0 /\ hist[w].commits = 0 /\ ~completed[w]
                 /\ Done(w) => hist[w].recycles = 1
            /\ (hist[w].waits = 1 /\ returncode[w] = 0) =>
                 /\ hist[w].recycles = 0
                 /\ pc[w] # "parse" => hist[w].parses = 1
                 /\ (Done(w) /\ hist[w].parse_ok /\ WellKeyed(hist[w].parsed))
                        => hist[w].commits = 1)

C12_Witness ==
    \E w \in Workers :
        /\ pc[w] = "returned"
        /\ hist[w].launch = "handle"
        /\ hist[w].waits = 1
        /\ returncode[w] = 1
        /\ hist[w].recycle_ok
\* C13: consume has no timeout and no cancellation.  Once the child of a
\* consume call has exited, the call ends, by a store write or by raising;
\* as long as the child runs, the worker stays in wait(): it makes no step
\* of its own, no store write, and its workspace is not torn down.
C13_NoTimeout ==
    /\ \A w \in Workers :
         (pc[w] = "wait" /\ proc[w].state = "exited") ~> Done(w)
    /\ [](\A w \in Workers :
            /\ Done(w) => (pc[w] = "raised" \/ hist[w].commits + hist[w].recycles = 1)
            /\ pc[w] = "wait" =>
                 /\ wdir[w] \in fsDirs
                 /\ hist[w].released = 0
                 /\ hist[w].commits + hist[w].recycles = 0)
    /\ [][\A w \in Workers :
            (pc[w] = "wait" /\ proc[w].state = "running" /\ proc'[w].state = "running") =>
                /\ pc'[w] = "wait"
                /\ hist'[w] = hist[w]
                /\ trial'[w] = trial[w]
                /\ store' = store]_vars

C13_Witness ==
    \E w \in Workers :
        /\ pc[w] = "wait"
        /\ proc[w].state = "running"
        /\ hist[w].launch = "handle"
        /\ wdir[w] \in fsDirs
\* C14: _consume never changes the status of the trial, and changes its
\* results only where the child exited 0 and the results were read in full;
\* when _consume has returned None the trial is as it was at entry, and the
\* status is reset to 'new' only by consume, after the workspace scope was
\* released.
C14_ConsumeFrame ==
    \A w \in Workers :
        /\ (InScope(w) \/ pc[w] \in {"tmpdir", "dispose"}) =>
               trial[w].status = hist[w].entry.status
        /\ trial[w].id = hist[w].entry.id
        /\ trial[w].results # hist[w].entry.results =>
               /\ hist[w].waits = 1 /\ returncode[w] = 0
               /\ hist[w].parse_ok /\ WellKeyed(hist[w].parsed)
               /\ completed[w]
        /\ (pc[w] = "dispose" /\ ~completed[w]) => trial[w] = hist[w].entry
        /\ trial[w].status # hist[w].entry.status =>
               /\ hist[w].released = 1
               /\ \/ trial[w].status = "new" /\ hist[w].recycles = 1
                  \/ trial[w].status = "completed" /\ hist[w].commit_ok

C14_Witness ==
    \E w \in Workers :
        /\ pc[w] = "dispose"
        /\ ~completed[w]
        /\ hist[w].waits = 1
        /\ hist[w].entry.status = "reserved"
        /\ trial[w] = hist[w].entry
\* C15: every child is started with the command [script] + the rendered
\* arguments and with an environment equal to the worker's own except for
\* METAOPT_RESULTS_PATH, which is the path of the results file allocated in
\* this attempt's workspace, the path the parser reads afterwards; the
\* worker's own environment stays as it was.
C15_ChildCommandAndEnv ==
    \A w \in Workers :
        /\ environ[w] = os_environ(w)
        /\ proc[w].state # "none" =>
             /\ Head(proc[w].command) = "user_script"
             /\ Tail(proc[w].command) = cmd_args[w]
             /\ cmd_args[w] = build_to(cfile[w], hist[w].entry)
             /\ rfile[w] \in FilePaths
             /\ rfile[w][1] = hist[w].ws_dir
             /\ proc[w].env["METAOPT_RESULTS_PATH"] = rfile[w]
             /\ \A v \in EnvVars \ {"METAOPT_RESULTS_PATH"} :
                  proc[w].env[v] = environ[w][v]
        /\ hist[w].parses = 1 =>
             hist[w].parsed_path = proc[w].env["METAOPT_RESULTS_PATH"]

C15_Witness ==
    \E w \in Workers :
        /\ pc[w] = "exit"
        /\ hist[w].parses = 1
        /\ hist[w].parse_ok
        /\ environ[w]["METAOPT_RESULTS_PATH"] = <<"inherited">>
        /\ proc[w].env["METAOPT_RESULTS_PATH"] = rfile[w]
\* C16: when the workspace directory or one of its two files cannot be
\* created, the error leaves consume as an exception, no child process is
\* launched, the trial stays as it was at entry, no store write is made, and
\* a directory already created for the attempt is removed with what it holds.
C16_WorkspaceFailure ==
    \A w \in Workers :
        err[w] = "workspace" =>
            /\ pc[w] \in {"exit", "raised"}
            /\ hist[w].launches = 0
            /\ hist[w].launch = "none"
            /\ proc[w].state = "none"
            /\ trial[w] = hist[w].entry
            /\ hist[w].commits + hist[w].recycles = 0
            /\ pc[w] = "raised" =>
                 /\ hist[w].released = hist[w].entered
                 /\ hist[w].entered = 1 =>
                      /\ hist[w].ws_dir \notin fsDirs
                      /\ \A p \in FilePaths :
                           p[1] = hist[w].ws_dir => fsFiles[p].kind = "absent"

C16_Witness ==
    \E w \in Workers :
        /\ pc[w] = "raised"
        /\ err[w] = "workspace"
        /\ cfile[w] # NoPath
        /\ rfile[w] = NoPath
        /\ hist[w].released = 1
\* C17: a consume call launches at most one child process, and it calls
\* push_completed_trial, at most once, only if in that call one child was
\* launched, its wait() returned 0 and the parser returned without error,
\* every record read in full.
C17_CommitOnlyEvaluated ==
    \A w \in Workers :
        /\ hist[w].launches <= 1
        /\ hist[w].commits <= 1
        /\ (hist[w].commits = 1 \/ completed[w]) =>
             /\ hist[w].launches = 1
             /\ hist[w].launch = "handle"
             /\ hist[w].waits = 1
             /\ returncode[w] = 0
             /\ proc[w].state = "exited" /\ proc[w].code = 0
             /\ hist[w].parses = 1
             /\ hist[w].parse_ok
             /\ WellKeyed(hist[w].parsed)
             /\ err[w] \in {"none", "store"}

C17_Witness ==
    \E w \in Workers :
        /\ pc[w] = "returned"
        /\ hist[w].commits = 1
        /\ hist[w].launches = 1
        /\ store[trial[w].id].status = "completed"
====
